---- MODULE Spec2Model ----
(***************************************************************************)
(* Model of the two stdin filters of MyScripts/TaskVisualizationExperiments *)
(*   PrintContextSwitchSummaries.py  (the Formatter)                        *)
(*   FindCasesOfParentResuming.py    (the Detector)                         *)
(* Text is modelled as TLA+ strings; str.split, int(), str(), the list and  *)
(* dict repr and the fixed token indices are computed as Python computes    *)
(* them.  Each loop iteration of a script is one action.  Standard output   *)
(* is kept as one chunk (sequence of finished lines) per loop iteration.    *)
(* str.split is a pure function of the line: an input line is kept with    *)
(* the token list the loop body computes from it.                           *)
(***************************************************************************)
EXTENDS Integers, Sequences, FiniteSets, TLC

VARIABLES
    fin,     \* Formatter: its standard input, one record per line: the text `line`
             \*   and `line_array`, the list line.split() makes of it
    fpos,    \* Formatter: number of lines input() has returned
    count,   \* Formatter: `count`
    fpc,     \* Formatter: "loop" | "done" ("off" when the script is not run)
    fout,    \* Formatter: stdout, one chunk of finished lines per iteration
    fpend,   \* Formatter: text printed with end="" and not yet ended by a newline
    piped,   \* TRUE when the Detector's stdin is the Formatter's stdout
    din,     \* Detector: its standard input when not piped, records as in fin
    dpos,    \* Detector: number of lines input() has returned
    dic,     \* Detector: `parent_task_dic`, <<key, value>> pairs in insertion order
    dpc,     \* Detector: "loop" | "done" ("off" when the script is not run)
    dout     \* Detector: stdout, one chunk per iteration, then the final chunk

vars == <<fin, fpos, count, fpc, fout, fpend, piped, din, dpos, dic, dpc, dout>>
fvars == <<fin, fpos, count, fpc, fout, fpend>>
dvars == <<din, dpos, dic, dpc, dout>>

----------------------------------------------------------------------------
(* Bounds of the model *)
MaxDetLines == 3
MaxFmtLines == 3
MaxPipeLines == 3

----------------------------------------------------------------------------
(* Python string primitives *)

Ch(s, i) == SubSeq(s, i, i)

IsSpace(c) == c \in {" ", "\t"}

\* the first index >= i of a non-whitespace character, and the end of the run there
RunStart(s, i) ==
    CHOOSE j \in i..Len(s) :
        ~IsSpace(Ch(s, j)) /\ \A k \in i..(j - 1) : IsSpace(Ch(s, k))
RunEnd(s, i) ==
    CHOOSE j \in i..Len(s) :
        /\ (j = Len(s) \/ IsSpace(Ch(s, j + 1)))
        /\ \A k \in i..j : ~IsSpace(Ch(s, k))

RECURSIVE SplitFrom(_, _)
SplitFrom(s, i) ==
    IF \A j \in i..Len(s) : IsSpace(Ch(s, j))
    THEN <<>>
    ELSE <<SubSeq(s, RunStart(s, i), RunEnd(s, RunStart(s, i)))>>
            \o SplitFrom(s, RunEnd(s, RunStart(s, i)) + 1)

\* line.split(): the maximal runs of non-whitespace characters, in order
Split(s) == SplitFrom(s, 1)

\* a[i] with Python's 0-based index; HasIdx is FALSE where a[i] raises IndexError
HasIdx(a, i) == i < Len(a)
At(a, i) == a[i + 1]

\* s[:-n]
DropLast(s, n) == IF Len(s) > n THEN SubSeq(s, 1, Len(s) - n) ELSE ""

Digits == "0123456789"
IsDigit(c) == \E d \in 0..9 : Ch(Digits, d + 1) = c
DigitVal(c) == CHOOSE d \in 0..9 : Ch(Digits, d + 1) = c
AllDigits(s) == Len(s) > 0 /\ \A i \in 1..Len(s) : IsDigit(Ch(s, i))

\* int(s) succeeds (no ValueError): an optional sign and decimal digits
IntOk(s) ==
    \/ AllDigits(s)
    \/ Len(s) > 1 /\ Ch(s, 1) \in {"+", "-"} /\ AllDigits(SubSeq(s, 2, Len(s)))

RECURSIVE DigitsVal(_, _, _)
DigitsVal(s, i, acc) ==
    IF i > Len(s) THEN acc ELSE DigitsVal(s, i + 1, acc * 10 + DigitVal(Ch(s, i)))

\* int(s) where IntOk(s)
IntVal(s) ==
    IF Ch(s, 1) = "-" THEN 0 - DigitsVal(s, 2, 0)
    ELSE IF Ch(s, 1) = "+" THEN DigitsVal(s, 2, 0)
    ELSE DigitsVal(s, 1, 0)

RECURSIVE NatStr(_)
NatStr(n) ==
    IF n < 10 THEN Ch(Digits, n + 1)
    ELSE NatStr(n \div 10) \o Ch(Digits, (n % 10) + 1)

\* str(n)
IntStr(n) == IF n < 0 THEN "-" \o NatStr(0 - n) ELSE NatStr(n)

RECURSIVE JoinQuoted(_, _)
JoinQuoted(a, i) ==
    IF i > Len(a) THEN ""
    ELSE (IF i > 1 THEN ", " ELSE "") \o "'" \o a[i] \o "'" \o JoinQuoted(a, i + 1)

\* repr of a list of strings (tokens without quotes or backslashes)
ListRepr(a) == "[" \o JoinQuoted(a, 1) \o "]"

----------------------------------------------------------------------------
(* parent_task_dic: a Python dict, kept as <<key, value>> pairs in insertion order *)

DicKeys(d) == {d[i][1] : i \in 1..Len(d)}
DicHas(d, k) == k \in DicKeys(d)
DicGet(d, k) == d[CHOOSE i \in 1..Len(d) : d[i][1] = k][2]

\* d[k] = v: an existing key keeps its place, a new key is appended
DicSet(d, k, v) ==
    IF DicHas(d, k)
    THEN [i \in 1..Len(d) |-> IF d[i][1] = k THEN <<k, v>> ELSE d[i]]
    ELSE Append(d, <<k, v>>)

RECURSIVE JoinItems(_, _)
JoinItems(d, i) ==
    IF i > Len(d) THEN ""
    ELSE (IF i > 1 THEN ", " ELSE "") \o "'" \o d[i][1] \o "': " \o IntStr(d[i][2])
         \o JoinItems(d, i + 1)

\* repr of the dict
DicRepr(d) == "{" \o JoinItems(d, 1) \o "}"

RECURSIVE Flatten(_)
Flatten(chunks) ==
    IF chunks = <<>> THEN <<>> ELSE Head(chunks) \o Flatten(Tail(chunks))

----------------------------------------------------------------------------
(* The Detector: FindCasesOfParentResuming.py *)

SummaryMarker == "SUMMARY:"
SwitchMarker == "CONTEXT_SWITCH:"
CreationTypes == {"Continuation", "Spawn"}
\* the parent index of the commented-out earlier copy of the loop
ParentIdxStable == 5
ParentIdx == 8
SchedIdx == 2

UnexpectedMsg ==
    "UNEXPECTED: parent got scheduled after last creation of a spawn and/or continuation task."
NormalMsg ==
    "NORMAL: scheduled task is not a previous parent task of an await point"

\* line = input(); line_array = list(line.split())
Read(l) == [line |-> l, line_array |-> Split(l)]

\* the lines input() returns one by one, and whether end of input can be seen
DetStdin ==
    IF piped
    THEN Flatten(fout) \o (IF fpc = "done" /\ fpend # "" THEN <<fpend>> ELSE <<>>)
    ELSE [i \in 1..Len(din) |-> din[i].line]
DetStdinClosed == IF piped THEN fpc = "done" ELSE TRUE
\* the line the next iteration reads, with its tokens
DetNext == IF piped THEN Read(DetStdin[dpos + 1]) ELSE din[dpos + 1]

\* the branch a token list takes in the loop body
DetIsCreation(t) ==
    /\ t # <<>> /\ At(t, 0) = SummaryMarker
    /\ HasIdx(t, 1) /\ At(t, 1) \in CreationTypes
    /\ HasIdx(t, ParentIdx)
DetIsSched(t) ==
    t # <<>> /\ At(t, 0) = SwitchMarker /\ HasIdx(t, SchedIdx)
\* an index past the end raises IndexError, which the outer except turns into break
DetRaises(t) ==
    /\ t # <<>>
    /\ \/ At(t, 0) = SummaryMarker /\ ~HasIdx(t, 1)
       \/ At(t, 0) = SummaryMarker /\ HasIdx(t, 1) /\ At(t, 1) \in CreationTypes
            /\ ~HasIdx(t, ParentIdx)
       \/ At(t, 0) # SummaryMarker /\ At(t, 0) = SwitchMarker /\ ~HasIdx(t, SchedIdx)

\* variants with a slip: the entry is only created, never reset / starts at 1
DetAfterCreationKeep(d, t) ==
    IF DicHas(d, At(t, ParentIdx)) THEN d ELSE DicSet(d, At(t, ParentIdx), 0)
DetAfterCreationOne(d, t) == DicSet(d, At(t, ParentIdx), 1)
\* variant with a slip: = 1 for += 1
DetAfterHitSet(d, k) == DicSet(d, k, 1)
\* variant with a slip: the miss creates the entry
DetAfterMissInsert(d, k) == DicSet(d, k, 1)

\* the registry after each branch
DetAfterCreation(d, t) == DicSet(d, At(t, ParentIdx), 0)
DetAfterHit(d, k) == DicSet(d, k, DicGet(d, k) + 1)
DetAfterMiss(d, k) == d

\* print(line); print(line_array)
DetEcho(r) == <<r.line, ListRepr(r.line_array)>>
\* the five empty prints and the registry printed after the loop
DetFinal(d) == <<"", "", "", "", "", DicRepr(d)>>

\* input() raises at end of input: break, then the final prints
DetEOF ==
    /\ dpc = "loop" /\ dpos = Len(DetStdin) /\ DetStdinClosed
    /\ dpc' = "done"
    /\ dout' = Append(dout, DetFinal(dic))
    /\ UNCHANGED <<dpos, dic, din, piped, fvars>>

\* a line whose handling raises IndexError: break, then the final prints
DetFail ==
    /\ dpc = "loop" /\ dpos < Len(DetStdin)
    /\ LET r == DetNext IN
        /\ DetRaises(r.line_array)
        /\ dpos' = dpos + 1
        /\ dpc' = "done"
        /\ dout' = dout \o <<DetEcho(r), DetFinal(dic)>>
    /\ UNCHANGED <<dic, din, piped, fvars>>

\* a blank line, a line with another first token, or a SUMMARY: line of another type
DetIgnore ==
    /\ dpc = "loop" /\ dpos < Len(DetStdin)
    /\ LET r == DetNext
           t == r.line_array IN
        /\ ~DetRaises(t) /\ ~DetIsCreation(t) /\ ~DetIsSched(t)
        /\ dpos' = dpos + 1
        /\ dout' = Append(dout, DetEcho(r))
    /\ UNCHANGED <<dic, dpc, din, piped, fvars>>

\* SUMMARY: Spawn|Continuation ...: parent_task_dic[parent_task] = 0
DetCreation ==
    /\ dpc = "loop" /\ dpos < Len(DetStdin)
    /\ LET r == DetNext
           t == r.line_array IN
        /\ DetIsCreation(t)
        /\ dpos' = dpos + 1
        /\ dic' = DetAfterCreation(dic, t)
        /\ dout' = Append(dout, DetEcho(r) \o
                      << "parent_task: " \o At(t, ParentIdx),
                         "parent_task_dic: " \o DicRepr(dic') >>)
    /\ UNCHANGED <<dpc, din, piped, fvars>>

\* CONTEXT_SWITCH: ...: the scheduled task is a key of the registry
DetSchedHit ==
    /\ dpc = "loop" /\ dpos < Len(DetStdin)
    /\ LET r == DetNext
           t == r.line_array IN
        /\ DetIsSched(t) /\ DicHas(dic, At(t, SchedIdx))
        /\ dpos' = dpos + 1
        /\ dic' = DetAfterHit(dic, At(t, SchedIdx))
        /\ dout' = Append(dout, DetEcho(r) \o
                      << "scheduled_task: " \o At(t, SchedIdx), UnexpectedMsg >>)
    /\ UNCHANGED <<dpc, din, piped, fvars>>

\* CONTEXT_SWITCH: ...: the += raises KeyError, caught by the inner except
DetSchedMiss ==
    /\ dpc = "loop" /\ dpos < Len(DetStdin)
    /\ LET r == DetNext
           t == r.line_array IN
        /\ DetIsSched(t) /\ ~DicHas(dic, At(t, SchedIdx))
        /\ dpos' = dpos + 1
        /\ dic' = DetAfterMiss(dic, At(t, SchedIdx))
        /\ dout' = Append(dout, DetEcho(r) \o
                      << "scheduled_task: " \o At(t, SchedIdx), NormalMsg >>)
    /\ UNCHANGED <<dpc, din, piped, fvars>>

SeqsUpTo(S, n) == UNION {[1..k -> S] : k \in 0..n}

\* the Detector's input lines of the model
DetLines ==
    { "SUMMARY: Spawn x x x x x x P x x x x x x x,",
      "SUMMARY: Spawn x x x x x x x x P x x x x x,",
      "     SUMMARY: Continuation B (ID = 2) created by Q (ID = 1)",
      "CONTEXT_SWITCH: Scheduled: P",
      "CONTEXT_SWITCH: Scheduled: Q",
      "",
      "     SUMMARY: No new task added.",
      "SUMMARY:",
      "CONTEXT_SWITCH: Scheduled:" }

FmtOff ==
    /\ fin = <<>> /\ fpos = 0 /\ count = 0 /\ fpc = "off"
    /\ fout = <<>> /\ fpend = ""

InitDet ==
    /\ piped = FALSE
    /\ din \in SeqsUpTo({Read(l) : l \in DetLines}, MaxDetLines)
    /\ dpos = 0 /\ dic = <<>> /\ dpc = "loop" /\ dout = <<>>
    /\ FmtOff

NextDet ==
    \/ DetEOF
    \/ DetFail
    \/ DetIgnore
    \/ DetCreation
    \/ DetSchedHit
    \/ DetSchedMiss

SpecDet == InitDet /\ [][NextDet]_vars

----------------------------------------------------------------------------
(* The Formatter: PrintContextSwitchSummaries.py *)

LogMarker == "<TaskSummaryLog>"
CaseTag == "T-case"
SchedTag == "Scheduled:"
NoTaskTag == "1.):"
CaseIdx == 2
TypeIdx == 3
NewTaskIdx == 5
NewTaskIdIdx == 8
FParentIdx == 11
FParentIdIdx == 14
FSchedIdx == 2

SummaryPrefix == "     SUMMARY: "
SwitchPrefix == "CONTEXT_SWITCH: "
FirstLine == "Scheduled: Task(0)"

FmtIsMarker(t) == t # <<>> /\ At(t, 0) = LogMarker

\* the T-case branch reaches the final print: every index exists and both ids parse
FmtCreationOk(t) ==
    /\ HasIdx(t, FParentIdx)
    /\ HasIdx(t, FParentIdIdx) /\ IntOk(DropLast(At(t, FParentIdIdx), 2))
    /\ HasIdx(t, NewTaskIdx)
    /\ HasIdx(t, NewTaskIdIdx) /\ IntOk(DropLast(At(t, NewTaskIdIdx), 1))

\* task_type: initialised to "continuation", set by the two known type tags
FmtTaskType(t) ==
    IF At(t, TypeIdx) = "Spawn" THEN "Spawn"
    ELSE IF At(t, TypeIdx) = "Continuation" THEN "Continuation"
    ELSE "continuation"

\* variants with a slip: no blanks inside the parentheses / parent and child swapped
FmtCreationTextCompact(t) ==
    FmtTaskType(t) \o " " \o At(t, NewTaskIdx)
        \o " (ID=" \o IntStr(IntVal(DropLast(At(t, NewTaskIdIdx), 1))) \o ")"
        \o " created by " \o At(t, FParentIdx)
        \o " (ID=" \o IntStr(IntVal(DropLast(At(t, FParentIdIdx), 2))) \o ")"
FmtCreationTextSwapped(t) ==
    FmtTaskType(t) \o " " \o At(t, FParentIdx)
        \o " (ID = " \o IntStr(IntVal(DropLast(At(t, FParentIdIdx), 2))) \o ")"
        \o " created by " \o At(t, NewTaskIdx)
        \o " (ID = " \o IntStr(IntVal(DropLast(At(t, NewTaskIdIdx), 1))) \o ")"

\* the text of the final print of the T-case branch
FmtCreationText(t) ==
    LET parent_task == At(t, FParentIdx)
        parent_task_id == IntVal(DropLast(At(t, FParentIdIdx), 2))
        new_task == At(t, NewTaskIdx)
        new_task_id == IntVal(DropLast(At(t, NewTaskIdIdx), 1))
    IN  FmtTaskType(t) \o " " \o new_task \o " (ID = " \o IntStr(new_task_id) \o ")"
          \o " created by " \o parent_task \o " (ID = " \o IntStr(parent_task_id) \o ")"

\* the lines a T-case line prints when nothing raises
FmtCaseChunk(t) ==
    IF At(t, CaseIdx) = NoTaskTag
    THEN << SummaryPrefix \o "No new task added.", "" >>
    ELSE IF At(t, TypeIdx) \in {"Spawn", "Continuation"}
         THEN << SummaryPrefix \o FmtCreationText(t), "" >>
         ELSE << SummaryPrefix \o "error1", FmtCreationText(t), "" >>

\* the lines a Scheduled: line prints when nothing raises
FmtSchedChunk(t) == << SwitchPrefix \o "Scheduled: " \o At(t, FSchedIdx), "" >>

\* a later marker line whose handling raises IndexError or ValueError
FmtRaises(t) ==
    \/ ~HasIdx(t, 1)
    \/ HasIdx(t, 1) /\ At(t, 1) = CaseTag /\ ~HasIdx(t, CaseIdx)
    \/ HasIdx(t, 1) /\ At(t, 1) = CaseTag /\ HasIdx(t, CaseIdx)
         /\ At(t, CaseIdx) # NoTaskTag /\ ~FmtCreationOk(t)
    \/ HasIdx(t, 1) /\ At(t, 1) # CaseTag /\ At(t, 1) = SchedTag
         /\ ~HasIdx(t, FSchedIdx)

\* what was printed with end="" before the exception
FmtRaisePending(t) ==
    IF ~HasIdx(t, 1) THEN ""
    ELSE IF At(t, 1) = CaseTag THEN SummaryPrefix ELSE SwitchPrefix

\* variant with a slip: the except clause continues instead of breaking
FmtEOFRetry ==
    /\ fpc = "loop" /\ fpos = Len(fin)
    /\ UNCHANGED vars

\* input() raises at end of input: break
FmtEOF ==
    /\ fpc = "loop" /\ fpos = Len(fin)
    /\ fpc' = "done"
    /\ UNCHANGED <<fin, fpos, count, fout, fpend, piped, dvars>>

\* a blank line or a line whose first token is not the marker
FmtSkip ==
    /\ fpc = "loop" /\ fpos < Len(fin)
    /\ ~FmtIsMarker(fin[fpos + 1].line_array)
    /\ fpos' = fpos + 1
    /\ fout' = Append(fout, <<>>)
    /\ UNCHANGED <<fin, count, fpc, fpend, piped, dvars>>

\* variant with a slip: count >= 1 for count == 1
FmtFirstAlways ==
    /\ fpc = "loop" /\ fpos < Len(fin)
    /\ FmtIsMarker(fin[fpos + 1].line_array)
    /\ count + 1 >= 1
    /\ fpos' = fpos + 1
    /\ count' = count + 1
    /\ fout' = Append(fout, << FirstLine, "" >>)
    /\ UNCHANGED <<fin, fpc, fpend, piped, dvars>>

\* the first marker line: count becomes 1, the hardcoded line, continue
FmtFirst ==
    /\ fpc = "loop" /\ fpos < Len(fin)
    /\ FmtIsMarker(fin[fpos + 1].line_array)
    /\ count + 1 = 1
    /\ fpos' = fpos + 1
    /\ count' = count + 1
    /\ fout' = Append(fout, << FirstLine, "" >>)
    /\ UNCHANGED <<fin, fpc, fpend, piped, dvars>>

\* a later marker line with second token T-case
FmtCase ==
    /\ fpc = "loop" /\ fpos < Len(fin)
    /\ LET t == fin[fpos + 1].line_array IN
        /\ FmtIsMarker(t) /\ count + 1 # 1 /\ ~FmtRaises(t)
        /\ At(t, 1) = CaseTag
        /\ fout' = Append(fout, FmtCaseChunk(t))
    /\ fpos' = fpos + 1
    /\ count' = count + 1
    /\ UNCHANGED <<fin, fpc, fpend, piped, dvars>>

\* a later marker line with second token Scheduled:
FmtScheduled ==
    /\ fpc = "loop" /\ fpos < Len(fin)
    /\ LET t == fin[fpos + 1].line_array IN
        /\ FmtIsMarker(t) /\ count + 1 # 1 /\ ~FmtRaises(t)
        /\ At(t, 1) # CaseTag /\ At(t, 1) = SchedTag
        /\ fout' = Append(fout, FmtSchedChunk(t))
    /\ fpos' = fpos + 1
    /\ count' = count + 1
    /\ UNCHANGED <<fin, fpc, fpend, piped, dvars>>

\* a later marker line with any other second token
FmtError2 ==
    /\ fpc = "loop" /\ fpos < Len(fin)
    /\ LET t == fin[fpos + 1].line_array IN
        /\ FmtIsMarker(t) /\ count + 1 # 1 /\ ~FmtRaises(t)
        /\ At(t, 1) # CaseTag /\ At(t, 1) # SchedTag
        /\ fout' = Append(fout, << "error2", "" >>)
    /\ fpos' = fpos + 1
    /\ count' = count + 1
    /\ UNCHANGED <<fin, fpc, fpend, piped, dvars>>

\* a later marker line whose handling raises: the outer except breaks
FmtFail ==
    /\ fpc = "loop" /\ fpos < Len(fin)
    /\ LET t == fin[fpos + 1].line_array IN
        /\ FmtIsMarker(t) /\ count + 1 # 1 /\ FmtRaises(t)
        /\ fpend' = fpend \o FmtRaisePending(t)
    /\ fpos' = fpos + 1
    /\ count' = count + 1
    /\ fout' = Append(fout, <<>>)
    /\ fpc' = "done"
    /\ UNCHANGED <<fin, piped, dvars>>

\* the Formatter's input lines of the model
FmtLines ==
    { "<TaskSummaryLog> T-case 2.): Spawn task TaskB with id 7, created by TaskA with id 3).",
      "<TaskSummaryLog> T-case 3.): Continuation task TaskC with id 012, created by TaskB with id 07).",
      "<TaskSummaryLog> T-case 1.): No new task",
      "<TaskSummaryLog> Scheduled: TaskB",
      "<TaskSummaryLog> Other",
      "<TaskSummaryLog>",
      "",
      "<TaskSummaryLog> T-case 2.): Fork task TaskD with id 4, created by TaskA with id 3).",
      "<TaskSummaryLog> T-case 2.): Spawn task TaskE with id x, created by TaskA with id 3)." }

DetOff ==
    /\ din = <<>> /\ dpos = 0 /\ dic = <<>> /\ dpc = "off" /\ dout = <<>>

InitFmt ==
    /\ piped = FALSE
    /\ fin \in SeqsUpTo({Read(l) : l \in FmtLines}, MaxFmtLines)
    /\ fpos = 0 /\ count = 0 /\ fpc = "loop" /\ fout = <<>> /\ fpend = ""
    /\ DetOff

NextFmt ==
    \/ FmtEOF
    \/ FmtSkip
    \/ FmtFirst
    \/ FmtCase
    \/ FmtScheduled
    \/ FmtError2
    \/ FmtFail

SpecFmt == InitFmt /\ [][NextFmt]_vars
\* the loop is the only thing the process does: it is never suspended for ever
FairSpecFmt == SpecFmt /\ WF_vars(NextFmt)

----------------------------------------------------------------------------
(* The pipe: Formatter | Detector *)

PipeLines ==
    { "<TaskSummaryLog> T-case 2.): Spawn task TaskB with id 7, created by TaskA with id 3).",
      "<TaskSummaryLog> T-case 3.): Continuation task TaskC with id 012, created by TaskB with id 07).",
      "<TaskSummaryLog> Scheduled: TaskA",
      "<TaskSummaryLog> Other",
      "",
      "<TaskSummaryLog> Scheduled:" }

InitPipe ==
    /\ piped = TRUE
    /\ fin \in SeqsUpTo({Read(l) : l \in PipeLines}, MaxPipeLines)
    /\ fpos = 0 /\ count = 0 /\ fpc = "loop" /\ fout = <<>> /\ fpend = ""
    /\ din = <<>> /\ dpos = 0 /\ dic = <<>> /\ dpc = "loop" /\ dout = <<>>

NextPipe ==
    \/ FmtEOF
    \/ FmtSkip
    \/ FmtFirst
    \/ FmtCase
    \/ FmtScheduled
    \/ FmtError2
    \/ FmtFail
    \/ DetEOF
    \/ DetFail
    \/ DetIgnore
    \/ DetCreation
    \/ DetSchedHit
    \/ DetSchedMiss

SpecPipe == InitPipe /\ [][NextPipe]_vars

----------------------------------------------------------------------------
(* Vocabulary of the properties: what a line says, read off its tokens *)

\* the line resets P: a SUMMARY: line of type Spawn or Continuation with parent P
IsCreationFor(t, P) ==
    /\ Len(t) >= 9 /\ t[1] = "SUMMARY:" /\ t[2] \in {"Spawn", "Continuation"}
    /\ t[9] = P
\* the line schedules P: a CONTEXT_SWITCH: line whose third token is P
IsSchedFor(t, P) == Len(t) >= 3 /\ t[1] = "CONTEXT_SWITCH:" /\ t[3] = P

\* the tokens of every line of the Detector's input so far
DetToks == [i \in 1..Len(DetStdin) |-> Split(DetStdin[i])]
\* every token of the lines T that stands where a parent or a scheduled task stands
NamesIn(T) ==
    {T[i][9] : i \in {j \in 1..Len(T) : Len(T[j]) >= 9}}
        \cup {T[i][3] : i \in {j \in 1..Len(T) : Len(T[j]) >= 3}}

\* the lines among the first n of T that reset P, and the last of them (0 when none)
ResetsOf(T, P, n) == {i \in 1..n : IsCreationFor(T[i], P)}
LastResetOf(T, P, n) ==
    LET R == ResetsOf(T, P, n) IN
    IF R = {} THEN 0 ELSE CHOOSE i \in R : \A j \in R : j <= i
\* how many of the first n lines of T schedule P after its last reset
SchedSinceReset(T, P, n) ==
    Cardinality({j \in (LastResetOf(T, P, n) + 1)..n : IsSchedFor(T[j], P)})

\* the chunk printed by the iteration that has just run
LastChunk(out) == out[Len(out)]
\* a line of this chunk is the UNEXPECTED / NORMAL message
HasLine(chunk, msg) == \E n \in 1..Len(chunk) : chunk[n] = msg

----------------------------------------------------------------------------
(* C1: the end-to-end Detector scenario *)

ScenarioLine == "SUMMARY: Spawn x x x x x x x x P x x x x x,"
ScenarioLineIdx8 == "SUMMARY: Spawn x x x x x x P x x x x x x x,"
ScenarioSched == "CONTEXT_SWITCH: Scheduled: P"

\* C1 as stated: after `SUMMARY: Spawn x x x x x x x x P x x x x x,` and then
\* `CONTEXT_SWITCH: Scheduled: P` the registry shows P = 1 and UNEXPECTED was printed
\* for the scheduling of P.
C1_Original ==
    (dpc = "done" /\ DetStdin = <<ScenarioLine, ScenarioSched>>) =>
        /\ dic = << <<"P", 1>> >>
        /\ LastChunk(dout)[6] = "{'P': 1}"
        /\ HasLine(dout[2], UnexpectedMsg)

\* C1 amended: the scenario holds when P is the token at index 8 of the SUMMARY: line
\* (`SUMMARY: Spawn x x x x x x P x x x x x x x,`): the registry then shows P = 1 and
\* UNEXPECTED is printed for the scheduling of P.  With the line as the claim writes it
\* (P at index 10) the registry ends as x = 0 and NORMAL is printed.
C1_Scenario ==
    /\ (dpc = "done" /\ DetStdin = <<ScenarioLineIdx8, ScenarioSched>>) =>
        /\ dic = << <<"P", 1>> >>
        /\ LastChunk(dout)[6] = "{'P': 1}"
        /\ dout[2] = << ScenarioSched, "['CONTEXT_SWITCH:', 'Scheduled:', 'P']",
                        "scheduled_task: P", UnexpectedMsg >>
    /\ (dpc = "done" /\ DetStdin = <<ScenarioLine, ScenarioSched>>) =>
        /\ dic = << <<"x", 0>> >>
        /\ LastChunk(dout)[6] = "{'x': 0}"
        /\ dout[2] = << ScenarioSched, "['CONTEXT_SWITCH:', 'Scheduled:', 'P']",
                        "scheduled_task: P", NormalMsg >>

C1_Witness == dpc = "done" /\ DetStdin = <<ScenarioLineIdx8, ScenarioSched>> /\ dpos = 2

----------------------------------------------------------------------------
(* C2: the anomaly property *)

\* the iteration that runs in this step reads line dpos + 1
DetReads == dpc = "loop" /\ dpos' = dpos + 1

C2_Step ==
    DetReads =>
        LET T == DetToks IN
        \A P \in NamesIn(T) :
            (IsSchedFor(T[dpos + 1], P) /\ ResetsOf(T, P, dpos) # {}) =>
                /\ HasLine(LastChunk(dout'), UnexpectedMsg)
                /\ HasLine(LastChunk(dout'), "scheduled_task: " \o P)
                /\ DicHas(dic, P) /\ DicHas(dic', P)
                /\ DicGet(dic', P) = DicGet(dic, P) + 1
                /\ DicGet(dic', P) = SchedSinceReset(T, P, dpos + 1)

\* C2: every CONTEXT_SWITCH line naming P that the Detector reads after a creation
\* line reset P prints UNEXPECTED and adds exactly 1 to P's count, so the count is
\* the number k of such lines since the last reset.
C2_Anomaly == [][C2_Step]_vars

\* P was reset and then scheduled twice: the count is 2
C2_Witness ==
    /\ dpos = 3 /\ DicHas(dic, "P") /\ DicGet(dic, "P") = 2
    /\ HasLine(LastChunk(dout), UnexpectedMsg)

----------------------------------------------------------------------------
(* C3: the ordering property *)

\* C3: when the loop has ended, for every P and every creation line that reset P with
\* no CONTEXT_SWITCH line naming P anywhere after it in the input, P's count is 0, the
\* final registry print is that of the registry, and no iteration after that reset
\* printed UNEXPECTED for P.
C3_Ordering ==
    dpc = "done" =>
        LET T == DetToks IN
        \A P \in NamesIn(T) : \A i \in ResetsOf(T, P, dpos) :
            (\A j \in (i + 1)..Len(T) : ~IsSchedFor(T[j], P)) =>
                /\ DicHas(dic, P) /\ DicGet(dic, P) = 0
                /\ LastChunk(dout) = <<"", "", "", "", "", DicRepr(dic)>>
                /\ \A j \in (i + 1)..dpos :
                      ~(/\ HasLine(dout[j], UnexpectedMsg)
                        /\ HasLine(dout[j], "scheduled_task: " \o P))

\* P was reset, another task was scheduled, and the input ended: P's count is 0
C3_Witness ==
    /\ dpc = "done" /\ dpos = 3 /\ Len(din) = 3
    /\ IsCreationFor(DetToks[1], "P") /\ IsSchedFor(DetToks[2], "Q")
    /\ DicHas(dic, "P") /\ DicGet(dic, "P") = 0

----------------------------------------------------------------------------
(* C4: the registry invariant *)

\* C4: after every prefix of the input, the keys of the registry are the names reset
\* by a creation line of the prefix, and each counter is the number of CONTEXT_SWITCH
\* lines naming that key processed since its most recent creation line: never
\* cumulative across a reset, never negative.
C4_Registry ==
    LET T == DetToks IN
    /\ DicKeys(dic) = {P \in NamesIn(T) : ResetsOf(T, P, dpos) # {}}
    /\ \A P \in DicKeys(dic) :
          /\ DicGet(dic, P) = SchedSinceReset(T, P, dpos)
          /\ DicGet(dic, P) >= 0

\* P was reset, scheduled, and reset again: the count is 0 again
C4_Witness ==
    /\ dpos = 3 /\ IsCreationFor(DetToks[1], "P") /\ IsSchedFor(DetToks[2], "P")
    /\ IsCreationFor(DetToks[3], "P") /\ DicGet(dic, "P") = 0

----------------------------------------------------------------------------
(* C9: a key miss and the frame of the registry *)

C9_Step ==
    DetReads =>
        LET t == Split(DetStdin[dpos + 1])
            N == NamesIn(<<t>>) IN
        /\ \A P \in N :
              (IsSchedFor(t, P) /\ ~DicHas(dic, P)) =>
                  /\ dic' = dic
                  /\ HasLine(LastChunk(dout'), NormalMsg)
                  /\ ~HasLine(LastChunk(dout'), UnexpectedMsg)
                  /\ dpc' = "loop"
        /\ \A P \in N :
              IsCreationFor(t, P) =>
                  /\ Len(dic') >= Len(dic)
                  /\ \A K \in DicKeys(dic) \ {P} :
                        DicHas(dic', K) /\ DicGet(dic', K) = DicGet(dic, K)
        /\ DicKeys(dic) \subseteq DicKeys(dic')

\* C9: a CONTEXT_SWITCH line naming a task that is no key of the registry prints
\* NORMAL, leaves the registry as it was and the loop running; a creation line changes
\* only its parent's entry; no key is ever removed.
C9_KeyMissFrame == [][C9_Step]_vars

\* a key miss with a non-empty registry, the loop still running
C9_Witness ==
    /\ dpc = "loop" /\ dpos >= 2 /\ dic # <<>>
    /\ HasLine(LastChunk(dout), NormalMsg)

----------------------------------------------------------------------------
(* C6: malformed lines and the rest of the input *)

\* C6 as stated: in both scripts the loop ends only when the input is exhausted, so
\* every line after a malformed one is still read.
C6_RunsToEnd ==
    /\ fpc = "done" => fpos = Len(fin)
    /\ dpc = "done" => dpos = Len(DetStdin)

----------------------------------------------------------------------------
(* Vocabulary of the Formatter's properties: what a raw line says *)

RawToks == [i \in 1..Len(fin) |-> Split(fin[i].line)]

IsMarkerLine(t) == Len(t) >= 1 /\ t[1] = "<TaskSummaryLog>"
\* line i of T is a marker line and not the first one
LaterMarker(T, i) == IsMarkerLine(T[i]) /\ \E j \in 1..(i - 1) : IsMarkerLine(T[j])

\* a well-formed id field: decimal digits followed by n punctuation characters
WellFormedId(tok, n) == Len(tok) > n /\ AllDigits(SubSeq(tok, 1, Len(tok) - n))
RECURSIVE StripZeros(_)
StripZeros(s) == IF Len(s) > 1 /\ Ch(s, 1) = "0" THEN StripZeros(Tail(s)) ELSE s
\* the decimal numeral of the id of such a field
IdOf(tok, n) == StripZeros(SubSeq(tok, 1, Len(tok) - n))

\* a case-summary line with a creation payload of type Spawn or Continuation
IsRawCreation(t) ==
    /\ Len(t) >= 15 /\ IsMarkerLine(t) /\ t[2] = "T-case" /\ t[3] # "1.):"
    /\ t[4] \in {"Spawn", "Continuation"}
    /\ WellFormedId(t[9], 1) /\ WellFormedId(t[15], 2)
\* a scheduling line
IsRawSched(t) == Len(t) >= 3 /\ IsMarkerLine(t) /\ t[2] = "Scheduled:"

\* <Type> <ChildName> (ID = <ChildId>) created by <ParentName> (ID = <ParentId>)
CreationForm(t) ==
    t[4] \o " " \o t[6] \o " (ID = " \o IdOf(t[9], 1) \o ") created by "
        \o t[12] \o " (ID = " \o IdOf(t[15], 2) \o ")"

StartsWith(s, pre) == Len(s) >= Len(pre) /\ SubSeq(s, 1, Len(pre)) = pre

----------------------------------------------------------------------------
(* C8: the creation output *)

ExampleRaw ==
    "<TaskSummaryLog> T-case 2.): Spawn task TaskB with id 7, created by TaskA with id 3)."
ExampleForm == "Spawn TaskB (ID = 7) created by TaskA (ID = 3)"

\* C8 as stated: for a case-summary line with a creation payload the Formatter emits
\* the line `<Type> <ChildName> (ID = <ChildId>) created by <ParentName> (ID =
\* <ParentId>)`, e.g. `Spawn TaskB (ID = 7) created by TaskA (ID = 3)`.
C8_Original ==
    LET T == RawToks IN
    \A i \in 1..fpos :
        (LaterMarker(T, i) /\ IsRawCreation(T[i])) =>
            /\ HasLine(fout[i], CreationForm(T[i]))
            /\ fin[i].line = ExampleRaw => HasLine(fout[i], ExampleForm)

\* C8 amended: for a marker line after the first that is such a case-summary line the
\* Formatter emits one line made of the prefix `     SUMMARY: ` followed by that form
\* (ids as decimal numerals), and then an empty line.
C8_CreationOutput ==
    LET T == RawToks IN
    \A i \in 1..fpos :
        (LaterMarker(T, i) /\ IsRawCreation(T[i])) =>
            /\ fout[i] = << "     SUMMARY: " \o CreationForm(T[i]), "" >>
            /\ fin[i].line = ExampleRaw =>
                  fout[i][1] = "     SUMMARY: Spawn TaskB (ID = 7) created by TaskA (ID = 3)"

\* the example line and a line whose ids have leading zeros were both formatted
C8_Witness ==
    /\ fpos = 3 /\ fin[2].line = ExampleRaw /\ Len(fout[2]) = 2
    /\ IsRawCreation(RawToks[3]) /\ RawToks[3][9] = "012," /\ Len(fout[3]) = 2

----------------------------------------------------------------------------
(* C10: the first marker line *)

Occurrences(lines, l) == Cardinality({n \in 1..Len(lines) : lines[n] = l})

\* what handling a later marker line leaves behind, by its second token
C10_Dispatched(t, chunk, pend, pc) ==
    /\ ~HasLine(chunk, "Scheduled: Task(0)")
    /\ Len(t) = 1 => (pc = "done" /\ chunk = <<>> /\ pend = "")
    /\ (Len(t) >= 2 /\ t[2] = "T-case") =>
          \/ pc = "loop" /\ chunk # <<>> /\ StartsWith(chunk[1], "     SUMMARY: ")
          \/ pc = "done" /\ chunk = <<>> /\ pend = "     SUMMARY: "
    /\ (Len(t) >= 2 /\ t[2] = "Scheduled:") =>
          \/ pc = "loop" /\ chunk # <<>>
               /\ StartsWith(chunk[1], "CONTEXT_SWITCH: Scheduled: ")
          \/ pc = "done" /\ chunk = <<>> /\ pend = "CONTEXT_SWITCH: "
    /\ (Len(t) >= 2 /\ t[2] \notin {"T-case", "Scheduled:"}) =>
          (pc = "loop" /\ chunk = << "error2", "" >>)

C10_Step ==
    (fpc = "loop" /\ fpos' = fpos + 1) =>
        LET T == RawToks
            t == T[fpos + 1]
            chunk == LastChunk(fout') IN
        /\ ~IsMarkerLine(t) => chunk = <<>>
        /\ (IsMarkerLine(t) /\ ~LaterMarker(T, fpos + 1)) =>
              (chunk = << "Scheduled: Task(0)", "" >> /\ fpend' = "" /\ fpc' = "loop")
        /\ LaterMarker(T, fpos + 1) => C10_Dispatched(t, chunk, fpend', fpc')

C10_Once ==
    LET T == RawToks IN
    /\ Occurrences(Flatten(fout), "Scheduled: Task(0)") =
          (IF \E i \in 1..fpos : IsMarkerLine(T[i]) THEN 1 ELSE 0)
    /\ fpc = "done" =>
          Occurrences(Flatten(fout), "Scheduled: Task(0)") =
              (IF \E i \in 1..Len(fin) : IsMarkerLine(T[i]) THEN 1 ELSE 0)

\* C10: the first marker line the Formatter reads prints `Scheduled: Task(0)` and an
\* empty line and nothing else, whatever its second token; every later marker line it
\* reads is dispatched on its second token; `Scheduled: Task(0)` is printed exactly
\* once if the input has a marker line and never otherwise.
C10_FirstLine == [](C10_Once) /\ [][C10_Step]_vars

\* a first marker line that is a creation line, then a later marker line, were handled
C10_Witness ==
    /\ fpos >= 2 /\ count = 2 /\ IsRawCreation(RawToks[1])
    /\ Occurrences(Flatten(fout), "Scheduled: Task(0)") = 1

----------------------------------------------------------------------------
(* C7: termination of the Formatter *)

\* C7: whatever the input lines are, the Formatter's loop is eventually left.
C7_Terminates == <>(fpc = "done")

\* the loop was left at the end of an input of three or more lines
C7_Witness == fpc = "done" /\ Len(fin) >= 3 /\ fpos = Len(fin) /\ count = 3

----------------------------------------------------------------------------
(* C5: Formatter | Detector *)

\* the number of lines the Formatter printed before the chunk of its input line i
Offset(i) == Len(Flatten(SubSeq(fout, 1, i - 1)))

C5_Printed ==
    LET T == RawToks IN
    \A i \in 1..fpos :
        (LaterMarker(T, i) /\ (IsRawCreation(T[i]) \/ IsRawSched(T[i]))) =>
            /\ Len(fout[i]) = 2
            /\ (fpc = "done" /\ dpc = "done") => dpos >= Offset(i) + 1

C5_Step ==
    (dpc = "loop" /\ dpos' = dpos + 1) =>
        LET T == RawToks IN
        \A i \in 1..fpos :
            (LaterMarker(T, i) /\ Len(fout[i]) > 0 /\ Offset(i) + 1 = dpos + 1) =>
                /\ IsRawCreation(T[i]) =>
                      /\ DicHas(dic', T[i][12]) /\ DicGet(dic', T[i][12]) = 0
                      /\ DicKeys(dic') = DicKeys(dic) \cup {T[i][12]}
                      /\ HasLine(LastChunk(dout'), "parent_task: " \o T[i][12])
                /\ IsRawSched(T[i]) =>
                      /\ HasLine(LastChunk(dout'), "scheduled_task: " \o T[i][3])
                      /\ DicHas(dic, T[i][3]) =>
                            /\ DicGet(dic', T[i][3]) = DicGet(dic, T[i][3]) + 1
                            /\ HasLine(LastChunk(dout'), UnexpectedMsg)
                      /\ ~DicHas(dic, T[i][3]) =>
                            /\ dic' = dic
                            /\ HasLine(LastChunk(dout'), NormalMsg)

\* C5: in the pipe, the line the Formatter prints for a creation line after the first
\* makes the Detector reset the entry of the parent named at index 11 of the raw line,
\* the line it prints for a scheduling line after the first makes the Detector look up
\* the task named at index 2 of the raw line, and the Detector reads every such line.
C5_Pipe == [](C5_Printed) /\ [][C5_Step]_vars

\* in the pipe TaskA was reset by a creation line and then found by a scheduling line
C5_Witness ==
    /\ fpc = "done" /\ dpc = "done"
    /\ DicHas(dic, "TaskA") /\ DicGet(dic, "TaskA") = 1

====
